---------------------------- MODULE Spec2Model ----------------------------
(***************************************************************************)
(* Model of the ZIP risk-scoring pipeline (generate_risk_csv.py: main) and *)
(* of the consumer that loads its output table and serves boundaries and   *)
(* scores from it (app.py).                                                *)
(*                                                                         *)
(* Geometry is abstract: a ZIP feature is identified by its position in    *)
(* the ZIP source (gid) and the results of the geometric library calls     *)
(* (overlay piece areas, the intersects predicate, the centroid-to-fault   *)
(* distance) are read from the input files' geometry tables.               *)
(*                                                                         *)
(* Values of columns that hold mixed Python types are tagged records       *)
(* [kind, val]; NaN is pandas' missing value.                              *)
(***************************************************************************)
EXTENDS Integers, Sequences, FiniteSets, TLC

VARIABLES
    pc,             \* position of main() (or of the function harness)
    err,            \* the exception that ended the run, "none" otherwise
    files,          \* the four geometry sources on disk
    session,        \* the browser session's cookie: what Flask last saved
    runs,           \* the tables written by the runs that came before this one
    zip_gdf,        \* [cols, crs, rows]
    flood_gdf,      \* [cols, crs, rows]
    wildfire_gdf,   \* [cols, crs, rows]
    fault_gdf,      \* [n, crs]
    dominant_flood, \* flood resolver's table
    wildfire_max,   \* wildfire resolver's table
    zip_gdf_m,      \* [crs, rows]: reprojected ZIP frame, earthquake columns
    fault_gdf_m,    \* [n, crs]: reprojected fault frame
    master_df,      \* merged table
    out_dir,        \* does output/ exist
    out_file,       \* [exists, lines] : output/zip_risk_scores.csv
    wpos,           \* number of lines to_csv has written so far
    risk_df,        \* what app.py read from the output file
    call,           \* function harness: [fn, arg]
    ret             \* function harness: the call's outcome

vars == <<pc, err, files, session, runs, zip_gdf, flood_gdf, wildfire_gdf,
          fault_gdf,
          dominant_flood, wildfire_max, zip_gdf_m, fault_gdf_m, master_df, out_dir,
          out_file, wpos, risk_df, call, ret>>

----------------------------------------------------------------------------
(* Bounds of the model *)

MaxZipFeatures == 2
MaxFloodFeatures == 3
MaxZones == 2
MaxArea == 3
MaxStrLen == 3
MaxDist == 12000
MaxRuns == 2
MaxChat == 3

----------------------------------------------------------------------------
(* Tagged values *)

NaN == [kind |-> "nan", val |-> 0]
\* NaN in a column of strings (ZIP, names, labels)
NA == "<NA>"
None == [kind |-> "none", val |-> 0]
IntV(n) == [kind |-> "int", val |-> n]
\* a float with one decimal digit, val in tenths (1427 is 142.7)
FloatV(t) == [kind |-> "float", val |-> t]
Inf == [kind |-> "inf", val |-> 0]
\* a str as its sequence of characters
StrV(s) == [kind |-> "str", val |-> s]

UNKNOWN == StrV(<<"U", "N", "K", "N", "O", "W", "N">>)

----------------------------------------------------------------------------
(* Program constants *)

alameda_zips ==
    << "94501", "94502", "94536", "94538", "94539", "94541", "94542", "94544", "94545",
       "94546", "94550", "94551", "94552", "94555", "94560", "94566", "94568", "94577",
       "94578", "94579", "94580", "94586", "94587", "94601", "94602", "94603", "94605",
       "94606", "94607", "94608", "94609", "94610", "94611", "94612", "94618", "94619",
       "94621", "94706" >>

Range(s) == {s[i] : i \in DOMAIN s}

hazard_rank_map ==
    [l \in {"Non-Wildland/Non-Urban", "Urban Unzoned", "Low", "Moderate",
            "High", "Very High"} |->
        CASE l = "Non-Wildland/Non-Urban" -> 0
          [] l = "Urban Unzoned" -> 1
          [] l = "Low" -> 2
          [] l = "Moderate" -> 3
          [] l = "High" -> 4
          [] l = "Very High" -> 5]

\* {v: k for k, v in hazard_rank_map.items()}
inv_hazard_map ==
    [r \in Range(hazard_rank_map) |->
        CHOOSE l \in DOMAIN hazard_rank_map : hazard_rank_map[l] = r]

FloodIds == {142, 152, 144, 145, 146, 147, 148, 149, 153, 151}

\* the integer-keyed entries of flood_risk_map_by_id (texts in ASCII)
FloodEntry(id) ==
    CASE id = 142 -> [score |-> 4,
            explanation |-> "High flood risk due to steep hills causing rapid runoff, dense urban areas, and historic flooding along San Lorenzo Creek.",
            chatbot_prompt |-> "Prepare for flooding risks including flash floods and urban runoff. Follow local evacuation routes and secure important belongings."]
      [] id = 152 -> [score |-> 3,
            explanation |-> "Moderate to high risk from tidal influence combined with creek overflow in a heavily urbanized area.",
            chatbot_prompt |-> "Expect tidal flooding and creek overflow. Stay informed of tide schedules and emergency alerts."]
      [] id = 144 -> [score |-> 7,
            explanation |-> "Moderate risk from steep hillsides and flash flooding potential in parts of Oakland and Piedmont.",
            chatbot_prompt |-> "Watch for flash floods in steep areas. Avoid low-lying regions during storms."]
      [] id = 145 -> [score |-> 3,
            explanation |-> "Medium risk influenced by Alameda Creek's flow and levee system; flooding possible in heavy storms.",
            chatbot_prompt |-> "Flooding possible from Alameda Creek; have a plan for heavy storms and levee breaches."]
      [] id = 146 -> [score |-> 6,
            explanation |-> "Moderate risk from bay-adjacent floodplains and increasing sea level rise impacts.",
            chatbot_prompt |-> "Prepare for coastal flooding and sea level rise; monitor weather and tides."]
      [] id = 147 -> [score |-> 5,
            explanation |-> "Lower risk suburban areas with flash flood potential from smaller creeks.",
            chatbot_prompt |-> "Flash floods possible near smaller creeks; clear drainage and avoid flood-prone spots."]
      [] id = 148 -> [score |-> 8,
            explanation |-> "Generally low risk due to more rural terrain and less urban development, but some large drainage areas carry water downstream rapidly.",
            chatbot_prompt |-> "While overall flood risk is lower, large drainages may overflow. Prepare in advance during major storms."]
      [] id = 149 -> [score |-> 2,
            explanation |-> "Generally low risk due to more rural terrain and less urban development.",
            chatbot_prompt |-> "Low flood risk; standard precautions recommended."]
      [] id = 153 -> [score |-> 6,
            explanation |-> "Moderate to high risk from urban flash flooding in narrow canyons and overwhelmed drainage.",
            chatbot_prompt |-> "Urban flash flooding possible; avoid narrow canyons and keep drainage clear."]
      [] id = 151 -> [score |-> 5,
            explanation |-> "Moderate risk from steep slopes, creek overflows, and occasional landslides.",
            chatbot_prompt |-> "Be cautious of flooding, landslides, and creek overflow during storms."]

\* flood_risk_map_by_id["UNKNOWN"]
FloodUnknownEntry ==
    [score |-> 0,
     explanation |-> "Flood risk unknown.",
     chatbot_prompt |-> "Flood risk data unavailable for your area; please stay alert to local weather reports."]

\* flood_risk_map_by_id.get(key, flood_risk_map_by_id["UNKNOWN"])
flood_risk_map_by_id_get(key) ==
    IF key.kind = "int" /\ key.val \in FloodIds THEN FloodEntry(key.val)
    ELSE FloodUnknownEntry

WildfireLabels == DOMAIN hazard_rank_map \cup {"Unknown"}

wildfire_risk_map(l) ==
    CASE l \in {"Non-Wildland/Non-Urban", "Urban Unzoned"} ->
            [score |-> 1, chatbot_prompt |-> "Low wildfire risk; maintain defensible space and follow local fire safety guidelines."]
      [] l = "Low" ->
            [score |-> 3, chatbot_prompt |-> "Low to moderate wildfire risk; keep vegetation trimmed and prepare for fire season."]
      [] l = "Moderate" ->
            [score |-> 5, chatbot_prompt |-> "Moderate wildfire risk; prepare evacuation plans and emergency kits."]
      [] l = "High" ->
            [score |-> 8, chatbot_prompt |-> "High wildfire risk; stay alert during fire season and follow local advisories."]
      [] l = "Very High" ->
            [score |-> 10, chatbot_prompt |-> "Very high wildfire risk; implement all safety measures and evacuate promptly if advised."]
      [] l = "Unknown" ->
            [score |-> 0, chatbot_prompt |-> "Wildfire risk data unavailable; stay informed via local sources."]

\* wildfire_risk_map.get(lvl, wildfire_risk_map['Unknown'])
wildfire_risk_map_get(lvl) ==
    IF lvl \in WildfireLabels THEN wildfire_risk_map(lvl)
    ELSE wildfire_risk_map("Unknown")

\* every column of master_df, in the order the code creates them
master_df_columns ==
    << "ZIP", "Earthquake_Risk_Score", "Earthquake_Risk_Explanation",
       "Flood_Control_District", "Flood_Control_District_ID",
       "Wildfire_Hazard_Level", "Flood_Risk_Score", "Flood_Risk_Explanation",
       "Flood_Chatbot_Prompt", "Wildfire_Risk_Score",
       "Wildfire_Chatbot_Prompt" >>

output_columns ==
    << "ZIP", "Earthquake_Risk_Score", "Earthquake_Risk_Explanation",
       "Flood_Control_District", "Wildfire_Hazard_Level", "Flood_Risk_Score",
       "Flood_Risk_Explanation", "Flood_Chatbot_Prompt", "Wildfire_Risk_Score",
       "Wildfire_Chatbot_Prompt" >>

----------------------------------------------------------------------------
(* earthquake_risk: dist is point.distance(fault_union), a float or NaN;   *)
(* every comparison with NaN is false.                                     *)

\* a boundary compared with <= instead of <
LtInclusive(dist, bound) == dist.kind = "float" /\ dist.val <= bound * 10

Lt(dist, bound) == dist.kind = "float" /\ dist.val < bound * 10

earthquake_risk(dist) ==
    IF Lt(dist, 500) THEN
        [score |-> 10, explanation |-> "Very high earthquake risk due to proximity (<0.5 km) to active fault lines."]
    ELSE IF Lt(dist, 1000) THEN
        [score |-> 8, explanation |-> "High earthquake risk due to proximity (<1 km) to active fault lines."]
    ELSE IF Lt(dist, 5000) THEN
        [score |-> 5, explanation |-> "Moderate earthquake risk due to proximity (1-5 km) to active fault lines."]
    ELSE IF Lt(dist, 10000) THEN
        [score |-> 3, explanation |-> "Low earthquake risk due to moderate distance (5-10 km) from active fault lines."]
    ELSE
        [score |-> 1, explanation |-> "Minimal earthquake risk due to distance >10 km from active fault lines."]

----------------------------------------------------------------------------
(* Python's int(x) *)

DigitChars == {"0", "1", "2", "3", "4", "5", "6", "7", "8", "9"}

DigitOf(c) ==
    CASE c = "0" -> 0 [] c = "1" -> 1 [] c = "2" -> 2 [] c = "3" -> 3
      [] c = "4" -> 4 [] c = "5" -> 5 [] c = "6" -> 6 [] c = "7" -> 7
      [] c = "8" -> 8 [] c = "9" -> 9

RECURSIVE LStrip(_)
LStrip(s) == IF s # <<>> /\ Head(s) = " " THEN LStrip(Tail(s)) ELSE s

RECURSIVE RStrip(_)
RStrip(s) ==
    IF s # <<>> /\ s[Len(s)] = " " THEN RStrip(SubSeq(s, 1, Len(s) - 1)) ELSE s

RECURSIVE DigitsValue(_)
DigitsValue(s) ==
    IF s = <<>> THEN 0
    ELSE 10 * DigitsValue(SubSeq(s, 1, Len(s) - 1)) + DigitOf(s[Len(s)])

\* int() of a str: surrounding blanks, an optional sign, then decimal digits
PyIntStr(s) ==
    LET t == RStrip(LStrip(s))
        signed == t # <<>> /\ Head(t) \in {"+", "-"}
        d == IF signed THEN Tail(t) ELSE t
    IN  IF d # <<>> /\ \A i \in DOMAIN d : d[i] \in DigitChars
        THEN [exc |-> "none",
              val |-> IF signed /\ Head(t) = "-" THEN 0 - DigitsValue(d)
                      ELSE DigitsValue(d)]
        ELSE [exc |-> "ValueError", val |-> 0]

\* int() truncates a float toward zero
Trunc(t) == IF t >= 0 THEN t \div 10 ELSE 0 - ((0 - t) \div 10)

PyInt(x) ==
    CASE x.kind = "int" -> [exc |-> "none", val |-> x.val]
      [] x.kind = "float" -> [exc |-> "none", val |-> Trunc(x.val)]
      [] x.kind = "nan" -> [exc |-> "ValueError", val |-> 0]
      [] x.kind = "inf" -> [exc |-> "OverflowError", val |-> 0]
      [] x.kind = "none" -> [exc |-> "TypeError", val |-> 0]
      [] x.kind = "str" -> PyIntStr(x.val)

\* a handler that names one exception class
ExceptOnlyValueError(exc) == exc = "ValueError"

\* the handler of get_flood_risk_info_by_id: a bare except
Catches(exc) == exc # "none"

\* the outcome of a call: the exception that escapes it, or its value
get_flood_risk_info_by_id(district_id) ==
    LET r == PyInt(district_id)
    IN  IF r.exc # "none" /\ ~Catches(r.exc)
        THEN [exc |-> r.exc, value |-> FloodUnknownEntry]
        ELSE [exc |-> "none",
              value |-> flood_risk_map_by_id_get(
                            IF r.exc # "none" THEN UNKNOWN ELSE IntV(r.val))]

----------------------------------------------------------------------------
(* The input files.  geo holds what the geometry library computes from the *)
(* features: dist[g], the distance in tenths of a metre from the centroid  *)
(* of ZIP feature g to the fault union; area[g][j], the area of the        *)
(* intersection of ZIP feature g and flood feature j (0: disjoint);        *)
(* hit[g][j], whether ZIP feature g intersects wildfire zone j.            *)

ZipSample == {"94501", "94601", "10001"}
DistSample == {3000, 120000}
FloodIdSample == {142, 144}
HazSample == {"Moderate", "High", "Very High", "Other", NA}

DistName(id) ==
    CASE id = 142 -> "Zone 2" [] id = 144 -> "Zone 4" [] OTHER -> "Zone X"

SeqsOfLen(S, k) == [1..k -> S]
SeqsUpTo(S, n) == UNION {SeqsOfLen(S, k) : k \in 0..n}

\* the CRS a source declares: geographic degrees, California Albers metres,
\* or none at all
CrsSample == {"EPSG:4326", "EPSG:3310"}
NoCrs == "none"

Files(zrows, dist, frows, area, wrows, hit, nfault) ==
    [zip |-> [readable |-> TRUE, col |-> "ZCTA5CE10", crs |-> "EPSG:4326",
              rows |-> zrows],
     flood |-> [readable |-> TRUE, cols |-> TRUE, crs |-> "EPSG:4326",
                rows |-> frows],
     wildfire |-> [readable |-> TRUE, haz |-> TRUE, crs |-> "EPSG:4326",
                   rows |-> wrows],
     fault |-> [readable |-> TRUE, crs |-> "EPSG:4326", n |-> nfault],
     geo |-> [dist |-> dist, area |-> area, hit |-> hit]]

FloodRow(id) == [DIST_NAME |-> DistName(id), DISTRICT_ID |-> IntV(id)]

BaseFiles ==
    Files(<<"94601", "10001">>, <<3000, 120000>>, <<FloodRow(142)>>,
          << <<2>>, <<0>> >>, <<[HAZ_CLASS |-> "High"]>>,
          << <<TRUE>>, <<FALSE>> >>, 1)

\* sources that cannot be read, lack a column or carry no CRS
BrokenInputs ==
    {[BaseFiles EXCEPT !.zip.readable = FALSE],
     [BaseFiles EXCEPT !.flood.readable = FALSE],
     [BaseFiles EXCEPT !.wildfire.readable = FALSE],
     [BaseFiles EXCEPT !.fault.readable = FALSE],
     [BaseFiles EXCEPT !.zip.col = "ZIP"],
     [BaseFiles EXCEPT !.zip.col = "GEOID"],
     [BaseFiles EXCEPT !.flood.cols = FALSE],
     [BaseFiles EXCEPT !.wildfire.haz = FALSE],
     [BaseFiles EXCEPT !.zip.crs = NoCrs],
     [BaseFiles EXCEPT !.fault.crs = NoCrs]}

\* sources that declare different CRSs
CrsInputs ==
    \E cz \in CrsSample, cf \in CrsSample \cup {NoCrs},
       cw \in CrsSample \cup {NoCrs}, cq \in CrsSample :
        files = [BaseFiles EXCEPT !.zip.crs = cz, !.flood.crs = cf,
                                  !.wildfire.crs = cw, !.fault.crs = cq]

\* properties that are null in the source or unknown to the lookup tables:
\* a district without a name, without an id or with an id that is no key
\* of flood_risk_map_by_id, a zone without a class
NullInputs ==
    \E name \in {"Zone 2", NA}, id \in {IntV(142), IntV(150), NaN},
       c \in {"High", NA}, a \in 0..1, h \in BOOLEAN :
        files = Files(<<"94601", "94501">>, <<3000, 120000>>,
                      <<[DIST_NAME |-> name, DISTRICT_ID |-> id]>>,
                      << <<1>>, <<a>> >>, <<[HAZ_CLASS |-> c]>>,
                      << <<TRUE>>, <<h>> >>, 1)

\* centroids alternately near the faults and far from them
DistPatterns(k) ==
    {[i \in 1..k |-> IF i % 2 = 1 THEN 3000 ELSE 120000],
     [i \in 1..k |-> IF i % 2 = 1 THEN 120000 ELSE 3000]}

\* many ZIP features, at most one flood feature and one wildfire zone
ZipInputs ==
    \E k \in 0..MaxZipFeatures,
       f \in {<<>>, <<FloodRow(142)>>},
       w \in {<<>>, <<[HAZ_CLASS |-> "High"]>>} :
        \E z \in SeqsOfLen(ZipSample, k),
           d \in DistPatterns(k),
           a \in SeqsOfLen(SeqsOfLen(0..1, Len(f)), k),
           h \in SeqsOfLen(SeqsOfLen(BOOLEAN, Len(w)), k),
           n \in 0..1 :
            files = Files(z, d, f, a, w, h, n)

\* one ZIP feature, many flood features
FloodInputs ==
    \E k \in 0..MaxFloodFeatures :
        \E f \in SeqsOfLen({FloodRow(id) : id \in FloodIdSample}, k),
           a \in SeqsOfLen(0..MaxArea, k) :
            files = Files(<<"94601">>, <<3000>>, f, <<a>>, <<>>, << <<>> >>, 1)

\* one ZIP feature, many wildfire zones
WildfireInputs ==
    \E k \in 0..MaxZones :
        \E w \in SeqsOfLen({[HAZ_CLASS |-> c] : c \in HazSample}, k),
           h \in SeqsOfLen(BOOLEAN, k) :
            files = Files(<<"94601">>, <<3000>>, <<>>, << <<>> >>, w, <<h>>, 1)

----------------------------------------------------------------------------
(* The output file.  A line is the header or one row's ten values.         *)

HeaderLine == [kind |-> "header", cols |-> output_columns]

OldTable ==
    <<HeaderLine,
      [kind |-> "row",
       cols |-> <<"94501", 5, earthquake_risk(FloatV(20000)).explanation,
                  "Zone 2", "High", 4, FloodEntry(142).explanation,
                  FloodEntry(142).chatbot_prompt, 8,
                  wildfire_risk_map("High").chatbot_prompt>>]>>

\* a name main() has not bound yet
NoFrame == [cols |-> {}, crs |-> NoCrs, rows |-> <<>>]
NoFault == [n |-> 0, crs |-> NoCrs]

\* session.get("zip_code", ...) of a session that holds no ZIP
Unset == "<unset>"

Hazards == {"wildfire", "flood", "earthquake"}

\* a session without the key chat_<hazard> / meta_<hazard>
NoChat == [present |-> FALSE, msgs |-> <<>>]
NoMeta == [present |-> FALSE, zip_code |-> Unset, inputs |-> <<>>, initial_response |-> NaN, current_score |-> NaN]

\* the session of a browser that has not posted the form
NewSession ==
    [zip_code |-> Unset, household |-> Unset, special_needs |-> Unset, preparedness |-> Unset,
     chat |-> [h \in Hazards |-> NoChat], meta |-> [h \in Hazards |-> NoMeta]]

Unloaded == [state |-> "unloaded", lines |-> <<>>]
Idle == [fn |-> "none", arg |-> NaN]
NoRet == [exc |-> "none", value |-> NaN]

Init ==
    /\ pc = "start"
    /\ err = "none"
    /\ \/ ZipInputs
       \/ FloodInputs
       \/ WildfireInputs
       \/ CrsInputs
       \/ NullInputs
       \/ files \in BrokenInputs
    /\ session = NewSession
    /\ runs = <<>>
    /\ zip_gdf = NoFrame
    /\ flood_gdf = NoFrame
    /\ wildfire_gdf = NoFrame
    /\ fault_gdf = NoFault
    /\ dominant_flood = <<>>
    /\ wildfire_max = <<>>
    /\ zip_gdf_m = NoFrame
    /\ fault_gdf_m = NoFault
    /\ master_df = <<>>
    /\ out_dir \in BOOLEAN
    /\ out_file \in {[exists |-> FALSE, lines |-> <<>>],
                     [exists |-> TRUE, lines |-> OldTable]}
    /\ out_file.exists => out_dir
    /\ wpos = 0
    /\ risk_df = Unloaded
    /\ call = Idle
    /\ ret = NoRet

Raise(e) ==
    /\ pc' = "aborted"
    /\ err' = e

\* os.makedirs(os.path.dirname(OUTPUT_CSV), exist_ok=True)
MakeDirs ==
    /\ pc = "start"
    /\ pc' = "load"
    /\ out_dir' = TRUE
    /\ UNCHANGED <<err, files, session, runs, zip_gdf, flood_gdf, wildfire_gdf, fault_gdf,
                   dominant_flood, wildfire_max, zip_gdf_m, fault_gdf_m, master_df,
                   out_file, wpos, risk_df, call, ret>>

\* gpd.read_file of one source: the frame it returns
ZipFrame(f) ==
    [cols |-> {f.col, "geometry"}, crs |-> f.crs,
     rows |-> [g \in DOMAIN f.rows |-> [ZIP |-> f.rows[g], geometry |-> g, quake |-> <<>>]]]

FloodFrame(f) ==
    [cols |-> (IF f.cols THEN {"DIST_NAME", "DISTRICT_ID"} ELSE {}) \cup {"geometry"},
     crs |-> f.crs,
     rows |-> [j \in DOMAIN f.rows |-> f.rows[j] @@ [geometry |-> j]]]

WildfireFrame(f) ==
    [cols |-> (IF f.haz THEN {"HAZ_CLASS"} ELSE {}) \cup {"geometry"},
     crs |-> f.crs,
     rows |-> [j \in DOMAIN f.rows |->
                  f.rows[j] @@ [geometry |-> j, hazard_rank |-> <<>>]]]

\* the four load_geodata calls; read_file raises on an unreadable source
Load ==
    /\ pc = "load"
    /\ IF /\ files.zip.readable /\ files.flood.readable
          /\ files.wildfire.readable /\ files.fault.readable
       THEN /\ zip_gdf' = ZipFrame(files.zip)
            /\ flood_gdf' = FloodFrame(files.flood)
            /\ wildfire_gdf' = WildfireFrame(files.wildfire)
            /\ fault_gdf' = [n |-> files.fault.n, crs |-> files.fault.crs]
            /\ pc' = "zip_filter"
            /\ err' = err
       ELSE /\ Raise("DriverError")
            /\ UNCHANGED <<zip_gdf, flood_gdf, wildfire_gdf, fault_gdf>>
    /\ UNCHANGED <<files, session, runs, dominant_flood, wildfire_max, zip_gdf_m, fault_gdf_m, master_df,
                   out_dir, out_file, wpos, risk_df, call, ret>>

----------------------------------------------------------------------------
(* ZIP filter *)

\* zip_gdf['ZIP'].isin(alameda_zips)
InAllowList(row) == row.ZIP \in Range(alameda_zips)

\* zip_gdf[zip_gdf['ZIP'].isin(alameda_zips)].reset_index(drop=True)
FilterZips(rows) == SelectSeq(rows, InAllowList)

StandardizeZip ==
    /\ pc = "zip_filter"
    /\ IF "ZCTA5CE10" \in zip_gdf.cols \/ "ZIP" \in zip_gdf.cols
       THEN /\ zip_gdf' = [zip_gdf EXCEPT !.cols = {"ZIP", "geometry"},
                                          !.rows = FilterZips(zip_gdf.rows)]
            /\ pc' = "flood"
            /\ err' = err
       ELSE /\ Raise("ValueError")
            /\ UNCHANGED zip_gdf
    /\ UNCHANGED <<files, session, runs, flood_gdf, wildfire_gdf, fault_gdf, dominant_flood,
                   wildfire_max, zip_gdf_m, fault_gdf_m, master_df, out_dir, out_file, wpos,
                   risk_df, call, ret>>

----------------------------------------------------------------------------
(* Flood district resolver *)

SetMax(S) == CHOOSE m \in S : \A x \in S : x <= m
SetMin(S) == CHOOSE m \in S : \A x \in S : m <= x

\* the keys of groupby('ZIP'), sorted: alameda_zips is in ascending order
\* and every filtered ZIP is one of its members
GroupKeys(rows) ==
    LET present(z) == \E k \in DOMAIN rows : rows[k].ZIP = z
    IN  SelectSeq(alameda_zips, present)

\* gpd.overlay(zip_gdf, flood_gdf, how='intersection') with its area column:
\* one piece per (ZIP feature, flood feature) pair that overlaps, ordered by
\* ZIP row, then flood row
Overlay(zrows, frows, area) ==
    LET nf == Len(frows)
        pair(k) == [i |-> ((k - 1) \div nf) + 1, j |-> ((k - 1) % nf) + 1]
        all == [k \in 1..(Len(zrows) * nf) |->
                   [ZIP |-> zrows[pair(k).i].ZIP,
                    DIST_NAME |-> frows[pair(k).j].DIST_NAME,
                    DISTRICT_ID |-> frows[pair(k).j].DISTRICT_ID,
                    intersect_area |->
                        area[zrows[pair(k).i].geometry][frows[pair(k).j].geometry]]]
        overlaps(p) == p.intersect_area > 0
    IN  SelectSeq(all, overlaps)

\* the first row of the group, whatever its area
IdxFirst(pieces, z) == SetMin({k \in DOMAIN pieces : pieces[k].ZIP = z})

\* groupby('ZIP')['intersect_area'].idxmax() for one key: the first row of
\* the group that holds the group's largest area
IdxMax(pieces, z) ==
    LET grp == {k \in DOMAIN pieces : pieces[k].ZIP = z}
        m == SetMax({pieces[k].intersect_area : k \in grp})
    IN  SetMin({k \in grp : pieces[k].intersect_area = m})

DominantFlood(pieces) ==
    LET keys == GroupKeys(pieces)
    IN  [n \in DOMAIN keys |->
            LET p == pieces[IdxMax(pieces, keys[n])]
            IN  [ZIP |-> p.ZIP,
                 Flood_Control_District |-> p.DIST_NAME,
                 Flood_Control_District_ID |-> p.DISTRICT_ID]]

FloodResolve ==
    /\ pc = "flood"
    /\ IF {"DIST_NAME", "DISTRICT_ID"} \subseteq flood_gdf.cols
       THEN /\ dominant_flood' =
                   DominantFlood(Overlay(zip_gdf.rows, flood_gdf.rows, files.geo.area))
            /\ pc' = "wildfire"
            /\ err' = err
       ELSE /\ Raise("KeyError")
            /\ UNCHANGED dominant_flood
    /\ UNCHANGED <<files, session, runs, zip_gdf, flood_gdf, wildfire_gdf, fault_gdf,
                   wildfire_max, zip_gdf_m, fault_gdf_m, master_df, out_dir, out_file, wpos,
                   risk_df, call, ret>>

----------------------------------------------------------------------------
(* Wildfire hazard resolver *)

\* an unrecognized class ranked below every class of the map
HazardRankBelow(c) == IF c \in DOMAIN hazard_rank_map THEN hazard_rank_map[c] ELSE -1

\* wildfire_gdf['HAZ_CLASS'].map(hazard_rank_map).fillna(0).astype(int)
HazardRank(c) == IF c \in DOMAIN hazard_rank_map THEN hazard_rank_map[c] ELSE 0

WithHazardRank(rows) ==
    [j \in DOMAIN rows |-> [rows[j] EXCEPT !.hazard_rank = <<HazardRank(rows[j].HAZ_CLASS)>>]]

\* the hazard_rank values gpd.sjoin(..., how='left', predicate='intersects')
\* pairs with the rows of one ZIP key (none: the left row's NaN)
JoinedRanks(zrows, wrows, hit, z) ==
    {wrows[j].hazard_rank[1] :
        j \in {j \in DOMAIN wrows :
                 \E i \in DOMAIN zrows :
                    zrows[i].ZIP = z /\ hit[zrows[i].geometry][wrows[j].geometry]}}

\* the first joined value instead of the largest
GroupFirst(ranks) == IF ranks = {} THEN NaN ELSE IntV(SetMin(ranks))

\* groupby('ZIP')['hazard_rank'].max(): NaN values are skipped
GroupMax(ranks) == IF ranks = {} THEN NaN ELSE IntV(SetMax(ranks))

\* wildfire_max['hazard_rank'].map(inv_hazard_map)
LevelOf(rank) ==
    IF rank.kind = "int" /\ rank.val \in DOMAIN inv_hazard_map
    THEN inv_hazard_map[rank.val] ELSE NA

WildfireMax(zrows, wrows, hit) ==
    LET keys == GroupKeys(zrows)
    IN  [n \in DOMAIN keys |->
            LET r == GroupMax(JoinedRanks(zrows, wrows, hit, keys[n]))
            IN  [ZIP |-> keys[n], hazard_rank |-> r,
                 Wildfire_Hazard_Level |-> LevelOf(r)]]

\* the merger reached without the wildfire resolver's result
WildfireNotAwaited ==
    /\ pc = "wildfire"
    /\ pc' = "earthquake"
    /\ UNCHANGED <<err, files, session, runs, zip_gdf, flood_gdf, wildfire_gdf,
                   fault_gdf, dominant_flood, wildfire_max, zip_gdf_m,
                   fault_gdf_m, master_df, out_dir, out_file, wpos, risk_df,
                   call, ret>>

WildfireResolve ==
    /\ pc = "wildfire"
    /\ IF "HAZ_CLASS" \in wildfire_gdf.cols
       THEN /\ wildfire_gdf' =
                   [wildfire_gdf EXCEPT !.cols = @ \cup {"hazard_rank"},
                                        !.rows = WithHazardRank(@)]
            /\ wildfire_max' =
                   WildfireMax(zip_gdf.rows, WithHazardRank(wildfire_gdf.rows),
                               files.geo.hit)
            /\ pc' = "earthquake"
            /\ err' = err
       ELSE /\ Raise("ValueError")
            /\ UNCHANGED <<wildfire_gdf, wildfire_max>>
    /\ UNCHANGED <<files, session, runs, zip_gdf, flood_gdf, fault_gdf, dominant_flood,
                   zip_gdf_m, fault_gdf_m, master_df, out_dir, out_file, wpos, risk_df,
                   call, ret>>

----------------------------------------------------------------------------
(* Earthquake risk resolver *)

\* point.distance(fault_union): NaN when the union is empty
Distance(g) == IF fault_gdf.n = 0 THEN NaN ELSE FloatV(files.geo.dist[g])

\* frame.to_crs(epsg=...): the same features, declared in the target CRS
ToCrs(frame, crs) == [frame EXCEPT !.crs = crs]

QuakeRows(zrows) ==
    [i \in DOMAIN zrows |->
        [zrows[i] EXCEPT !.quake = <<earthquake_risk(Distance(zrows[i].geometry))>>]]

EarthquakeResolve ==
    /\ pc = "earthquake"
    /\ IF zip_gdf.crs # NoCrs /\ fault_gdf.crs # NoCrs
       THEN /\ zip_gdf_m' = [ToCrs(zip_gdf, "EPSG:3310") EXCEPT
                                !.cols = @ \cup {"centroid", "Earthquake_Risk_Score",
                                                 "Earthquake_Risk_Explanation"},
                                !.rows = QuakeRows(@)]
            /\ fault_gdf_m' = ToCrs(fault_gdf, "EPSG:3310")
            /\ zip_gdf' =
                   [zip_gdf EXCEPT
                       !.cols = @ \cup {"Earthquake_Risk_Score",
                                        "Earthquake_Risk_Explanation"},
                       !.rows = QuakeRows(@)]
            /\ pc' = "merge"
            /\ err' = err
       ELSE /\ Raise("ValueError")
            /\ UNCHANGED <<zip_gdf, zip_gdf_m, fault_gdf_m>>
    /\ UNCHANGED <<files, session, runs, flood_gdf, wildfire_gdf, fault_gdf, dominant_flood,
                   wildfire_max, master_df, out_dir, out_file, wpos, risk_df,
                   call, ret>>

----------------------------------------------------------------------------
(* Risk table merger *)

\* zip_gdf[['ZIP', 'Earthquake_Risk_Score', 'Earthquake_Risk_Explanation']]
QuakeTable(zrows) ==
    [i \in DOMAIN zrows |->
        [ZIP |-> zrows[i].ZIP,
         Earthquake_Risk_Score |-> zrows[i].quake[1].score,
         Earthquake_Risk_Explanation |-> zrows[i].quake[1].explanation]]

RECURSIVE Flatten(_)
Flatten(ss) == IF ss = <<>> THEN <<>> ELSE Head(ss) \o Flatten(Tail(ss))

\* how='inner': left rows without a match are dropped
InnerMerge(left, right, fill) ==
    Flatten([i \in DOMAIN left |->
        LET sameKey(r) == r.ZIP = left[i].ZIP
            m == SelectSeq(right, sameKey)
        IN  [k \in DOMAIN m |-> left[i] @@ m[k]]])

\* left.merge(right, on='ZIP', how='left'): every left row in order, once
\* per right row with its key, or once with the fill values when none has
LeftMerge(left, right, fill) ==
    Flatten([i \in DOMAIN left |->
        LET sameKey(r) == r.ZIP = left[i].ZIP
            m == SelectSeq(right, sameKey)
        IN  IF m = <<>> THEN <<left[i] @@ fill>>
            ELSE [k \in DOMAIN m |-> left[i] @@ m[k]]])

\* an integer column that receives a NaN becomes a float column
Upcast(rows) ==
    IF \E i \in DOMAIN rows : rows[i].Flood_Control_District_ID = NaN
    THEN [i \in DOMAIN rows |->
            IF rows[i].Flood_Control_District_ID.kind = "int"
            THEN [rows[i] EXCEPT !.Flood_Control_District_ID = FloatV(10 * @.val)]
            ELSE rows[i]]
    ELSE rows

\* the wildfire fillna left out
FillFloodOnly(rows) ==
    [i \in DOMAIN rows |->
        [rows[i] EXCEPT
            !.Flood_Control_District = IF @ = NA THEN "UNKNOWN" ELSE @,
            !.Flood_Control_District_ID = IF @ = NaN THEN UNKNOWN ELSE @]]

\* the wildfire level also reset where the flood district is missing
FillCrossed(rows) ==
    [i \in DOMAIN rows |->
        [rows[i] EXCEPT
            !.Flood_Control_District = IF @ = NA THEN "UNKNOWN" ELSE @,
            !.Wildfire_Hazard_Level =
                IF @ = NA \/ rows[i].Flood_Control_District = NA
                THEN "Unknown" ELSE @,
            !.Flood_Control_District_ID = IF @ = NaN THEN UNKNOWN ELSE @]]

\* the three fillna calls
FillDefaults(rows) ==
    [i \in DOMAIN rows |->
        [rows[i] EXCEPT
            !.Flood_Control_District = IF @ = NA THEN "UNKNOWN" ELSE @,
            !.Wildfire_Hazard_Level = IF @ = NA THEN "Unknown" ELSE @,
            !.Flood_Control_District_ID = IF @ = NaN THEN UNKNOWN ELSE @]]

MergeAll(zrows, flood, wildfire) ==
    LET wl == [n \in DOMAIN wildfire |->
                  [ZIP |-> wildfire[n].ZIP,
                   Wildfire_Hazard_Level |-> wildfire[n].Wildfire_Hazard_Level]]
        m1 == Upcast(LeftMerge(QuakeTable(zrows), flood,
                        [Flood_Control_District |-> NA,
                         Flood_Control_District_ID |-> NaN]))
    IN  LeftMerge(m1, wl, [Wildfire_Hazard_Level |-> NA])

Merge ==
    /\ pc = "merge"
    /\ master_df' = FillDefaults(MergeAll(zip_gdf.rows, dominant_flood, wildfire_max))
    /\ pc' = "flood_lookup"
    /\ UNCHANGED <<err, files, session, runs, zip_gdf, flood_gdf, wildfire_gdf, fault_gdf,
                   dominant_flood, wildfire_max, zip_gdf_m, fault_gdf_m, out_dir, out_file,
                   wpos, risk_df, call, ret>>

\* lines 187-190
FloodLookup ==
    /\ pc = "flood_lookup"
    /\ LET info == [i \in DOMAIN master_df |->
                       get_flood_risk_info_by_id(master_df[i].Flood_Control_District_ID)]
       IN  IF \E i \in DOMAIN info : info[i].exc # "none"
           THEN /\ Raise(info[SetMin({i \in DOMAIN info : info[i].exc # "none"})].exc)
                /\ UNCHANGED master_df
           ELSE /\ master_df' =
                       [i \in DOMAIN master_df |->
                           master_df[i] @@
                           [Flood_Risk_Score |-> info[i].value.score,
                            Flood_Risk_Explanation |-> info[i].value.explanation,
                            Flood_Chatbot_Prompt |-> info[i].value.chatbot_prompt]]
                /\ pc' = "wildfire_lookup"
                /\ err' = err
    /\ UNCHANGED <<files, session, runs, zip_gdf, flood_gdf, wildfire_gdf, fault_gdf,
                   dominant_flood, wildfire_max, zip_gdf_m, fault_gdf_m, out_dir, out_file,
                   wpos, risk_df, call, ret>>

\* lines 224-226
WildfireLookup ==
    /\ pc = "wildfire_lookup"
    /\ master_df' =
           [i \in DOMAIN master_df |->
               LET info == wildfire_risk_map_get(master_df[i].Wildfire_Hazard_Level)
               IN  master_df[i] @@
                   [Wildfire_Risk_Score |-> info.score,
                    Wildfire_Chatbot_Prompt |-> info.chatbot_prompt]]
    /\ pc' = "to_csv"
    /\ UNCHANGED <<err, files, session, runs, zip_gdf, flood_gdf, wildfire_gdf, fault_gdf,
                   dominant_flood, wildfire_max, zip_gdf_m, fault_gdf_m, out_dir, out_file,
                   wpos, risk_df, call, ret>>

----------------------------------------------------------------------------
(* Table writer: master_df[output_columns].to_csv(OUTPUT_CSV, index=False)  *)
(* opens the destination for writing, which creates or empties it, writes  *)
(* the header and the rows through a buffer, and closes it.                *)

\* master_df[output_columns]: the selected columns of one row, in the
\* order of the selection
RowLine(r) ==
    [kind |-> "row",
     cols |-> [k \in DOMAIN output_columns |-> r[output_columns[k]]]]

\* the complete text of the table
Render(df) == <<HeaderLine>> \o [i \in DOMAIN df |-> RowLine(df[i])]

\* mode 'a': what the file holds is kept
OpenForAppend(f) == [exists |-> TRUE, lines |-> f.lines]

\* to_csv's default mode 'w': the file is created, or emptied
OpenForWrite(f) == [exists |-> TRUE, lines |-> <<>>]

WriteOpen ==
    /\ pc = "to_csv"
    /\ out_file' = OpenForWrite(out_file)
    /\ wpos' = 0
    /\ pc' = "writing"
    /\ UNCHANGED <<err, files, session, runs, zip_gdf, flood_gdf, wildfire_gdf, fault_gdf,
                   dominant_flood, wildfire_max, zip_gdf_m, fault_gdf_m, master_df, out_dir,
                   risk_df, call, ret>>

WriteLine ==
    /\ pc = "writing"
    /\ wpos < Len(Render(master_df))
    /\ out_file' = [out_file EXCEPT !.lines = Append(@, Render(master_df)[wpos + 1])]
    /\ wpos' = wpos + 1
    /\ UNCHANGED <<pc, err, files, session, runs, zip_gdf, flood_gdf, wildfire_gdf, fault_gdf,
                   dominant_flood, wildfire_max, zip_gdf_m, fault_gdf_m, master_df, out_dir,
                   risk_df, call, ret>>

WriteClose ==
    /\ pc = "writing"
    /\ wpos = Len(Render(master_df))
    /\ pc' = "done"
    /\ UNCHANGED <<err, files, session, runs, zip_gdf, flood_gdf, wildfire_gdf, fault_gdf,
                   dominant_flood, wildfire_max, zip_gdf_m, fault_gdf_m, master_df, out_dir,
                   out_file, wpos, risk_df, call, ret>>

Next ==
    \/ MakeDirs
    \/ Load
    \/ StandardizeZip
    \/ FloodResolve
    \/ WildfireResolve
    \/ EarthquakeResolve
    \/ Merge
    \/ FloodLookup
    \/ WildfireLookup
    \/ WriteOpen
    \/ WriteLine
    \/ WriteClose

Spec == Init /\ [][Next]_vars

----------------------------------------------------------------------------
(* The consumer: app.py reads the output file once, when it is imported,   *)
(* at any moment of a pipeline run.                                        *)

\* pd.read_csv("output/zip_risk_scores.csv", dtype={"ZIP": str})
ReadCsv(f) ==
    IF ~f.exists THEN [state |-> "FileNotFoundError", lines |-> <<>>]
    ELSE IF f.lines = <<>> THEN [state |-> "EmptyDataError", lines |-> <<>>]
    ELSE [state |-> "loaded", lines |-> f.lines]

ConsumerLoad ==
    /\ risk_df = Unloaded
    /\ risk_df' = ReadCsv(out_file)
    /\ UNCHANGED <<pc, err, files, session, runs, zip_gdf, flood_gdf, wildfire_gdf, fault_gdf,
                   dominant_flood, wildfire_max, zip_gdf_m, fault_gdf_m, master_df, out_dir,
                   out_file, wpos, call, ret>>

\* risk_df.set_index("ZIP").to_dict(orient="index"): the rows keyed by
\* ZIP, each a dict of the other columns; ValueError when a ZIP occurs twice
ToDict(lines) ==
    LET header == lines[1].cols
        pos(c) == CHOOSE k \in DOMAIN header : header[k] = c
        rows == {k \in DOMAIN lines : k > 1}
        key(k) == lines[k].cols[pos("ZIP")]
    IN  IF \E j, k \in rows : j # k /\ key(j) = key(k)
        THEN [exc |-> "ValueError", value |-> <<>>]
        ELSE [exc |-> "none",
              value |->
                 [z \in {key(k) : k \in rows} |->
                     LET k == CHOOSE k \in rows : key(k) = z
                     IN  [c \in Range(header) \ {"ZIP"} |-> lines[k].cols[pos(c)]]]]

\* the columns the handlers read from a row of zip_risk_data
ConsumerColumns ==
    {"Earthquake_Risk_Score", "Earthquake_Risk_Explanation", "Flood_Risk_Score",
     "Flood_Risk_Explanation", "Flood_Control_District", "Flood_Chatbot_Prompt",
     "Wildfire_Risk_Score", "Wildfire_Risk_Explanation", "Wildfire_Hazard_Level",
     "Wildfire_Chatbot_Prompt", "Earthquake_Chatbot_Prompt"}

NextServe == Next \/ ConsumerLoad

SpecServe == Init /\ [][NextServe]_vars

----------------------------------------------------------------------------
(* The script run again: a new process starts main() from its first line,  *)
(* with nothing but the file system left of the run before it.             *)

Rerun ==
    /\ pc = "done"
    /\ Len(runs) + 1 < MaxRuns
    /\ runs' = Append(runs, out_file.lines)
    /\ pc' = "start"
    /\ zip_gdf' = NoFrame
    /\ flood_gdf' = NoFrame
    /\ wildfire_gdf' = NoFrame
    /\ fault_gdf' = NoFault
    /\ dominant_flood' = <<>>
    /\ wildfire_max' = <<>>
    /\ zip_gdf_m' = NoFrame
    /\ fault_gdf_m' = NoFault
    /\ master_df' = <<>>
    /\ wpos' = 0
    /\ UNCHANGED <<err, files, session, out_dir, out_file, risk_df, call, ret>>

NextRerun == Next \/ Rerun

SpecRerun == Init /\ [][NextRerun]_vars

----------------------------------------------------------------------------
(* The pure functions, applied to arguments drawn from bounded sets.       *)

DistArgs == {FloatV(t) : t \in 0..(10 * MaxDist)} \cup {NaN}

IdChars == {"1", "4", "2", " ", "-", ".", "x"}

IdArgs ==
    {IntV(n) : n \in 140..155 \cup {0, -142}}
    \cup {FloatV(t) : t \in {1420, 1427, 1499, 1500, -1420, 5}}
    \cup {NaN, None, Inf, UNKNOWN}
    \cup {StrV(c) : c \in SeqsUpTo(IdChars, MaxStrLen)}

InitPure ==
    /\ pc = "call"
    /\ err = "none"
    /\ files = BaseFiles
    /\ session = NewSession
    /\ runs = <<>>
    /\ zip_gdf = NoFrame
    /\ flood_gdf = NoFrame
    /\ wildfire_gdf = NoFrame
    /\ fault_gdf = NoFault
    /\ dominant_flood = <<>>
    /\ wildfire_max = <<>>
    /\ zip_gdf_m = NoFrame
    /\ fault_gdf_m = NoFault
    /\ master_df = <<>>
    /\ out_dir = FALSE
    /\ out_file = [exists |-> FALSE, lines |-> <<>>]
    /\ wpos = 0
    /\ risk_df = Unloaded
    /\ call \in {[fn |-> "earthquake_risk", arg |-> d] : d \in DistArgs}
            \cup {[fn |-> "get_flood_risk_info_by_id", arg |-> x] : x \in IdArgs}
    /\ ret = NoRet

Call_earthquake_risk ==
    /\ pc = "call"
    /\ call.fn = "earthquake_risk"
    /\ ret' = [exc |-> "none", value |-> earthquake_risk(call.arg)]
    /\ pc' = "returned"
    /\ UNCHANGED <<err, files, session, runs, zip_gdf, flood_gdf, wildfire_gdf, fault_gdf,
                   dominant_flood, wildfire_max, zip_gdf_m, fault_gdf_m, master_df, out_dir,
                   out_file, wpos, risk_df, call>>

Call_get_flood_risk_info_by_id ==
    /\ pc = "call"
    /\ call.fn = "get_flood_risk_info_by_id"
    /\ ret' = get_flood_risk_info_by_id(call.arg)
    /\ pc' = "returned"
    /\ UNCHANGED <<err, files, session, runs, zip_gdf, flood_gdf, wildfire_gdf, fault_gdf,
                   dominant_flood, wildfire_max, zip_gdf_m, fault_gdf_m, master_df, out_dir,
                   out_file, wpos, risk_df, call>>

NextPure == Call_earthquake_risk \/ Call_get_flood_risk_info_by_id

SpecPure == InitPure /\ [][NextPure]_vars

----------------------------------------------------------------------------
(* The two resolvers' computations applied twice: the wildfire maximum of  *)
(* one ZIP over a set of zones and over that set with one more zone that   *)
(* intersects the ZIP; the dominant flood district of one ZIP over a       *)
(* sequence of flood features and over a permutation of it.                *)

Perms(k) == {p \in [1..k -> 1..k] : \A i, j \in 1..k : p[i] = p[j] => i = j}

OneZip == <<[ZIP |-> "94601", geometry |-> 1, quake |-> <<>>]>>

\* k zones, each intersecting the ZIP or not, and one more zone
ZoneArgs(k) ==
    {[zones |-> w, hit |-> h, extra |-> [HAZ_CLASS |-> c]] :
        w \in SeqsOfLen({[HAZ_CLASS |-> c] : c \in HazSample}, k),
        h \in SeqsOfLen(BOOLEAN, k), c \in HazSample}

\* k flood features of two districts, their intersection areas with the
\* ZIP, and a reordering of the features
FloodArgs(k) ==
    {[rows |-> f, area |-> a, perm |-> p] :
        f \in SeqsOfLen({FloodRow(142), FloodRow(144)}, k),
        a \in SeqsOfLen(0..MaxArea, k),
        p \in Perms(k)}

InitRel ==
    /\ pc = "call"
    /\ err = "none"
    /\ files = BaseFiles
    /\ session = NewSession
    /\ runs = <<>>
    /\ zip_gdf = NoFrame
    /\ flood_gdf = NoFrame
    /\ wildfire_gdf = NoFrame
    /\ fault_gdf = NoFault
    /\ dominant_flood = <<>>
    /\ wildfire_max = <<>>
    /\ zip_gdf_m = NoFrame
    /\ fault_gdf_m = NoFault
    /\ master_df = <<>>
    /\ out_dir = FALSE
    /\ out_file = [exists |-> FALSE, lines |-> <<>>]
    /\ wpos = 0
    /\ risk_df = Unloaded
    /\ \/ \E k \in 0..MaxZones : \E x \in ZoneArgs(k) :
             call = [fn |-> "wildfire_max", arg |-> x]
       \/ \E k \in 0..MaxFloodFeatures : \E x \in FloodArgs(k) :
             call = [fn |-> "dominant_flood", arg |-> x]
    /\ ret = NoRet

\* lines 69-74 over the zones ws, of which hs tells the ones that
\* intersect the ZIP
WildfireMaxOf(ws, hs) ==
    WildfireMax(OneZip,
                WithHazardRank(WildfireFrame([haz |-> TRUE, crs |-> "EPSG:4326",
                                              rows |-> ws]).rows),
                <<hs>>)

\* lines 48-55 over the flood features fs with intersection areas as
DominantFloodOf(fs, as) ==
    DominantFlood(Overlay(OneZip,
                          FloodFrame([cols |-> TRUE, crs |-> "EPSG:4326",
                                      rows |-> fs]).rows,
                          <<as>>))

Call_WildfireMax ==
    /\ pc = "call"
    /\ call.fn = "wildfire_max"
    /\ ret' = [exc |-> "none",
               value |-> [before |-> WildfireMaxOf(call.arg.zones, call.arg.hit),
                          after |-> WildfireMaxOf(Append(call.arg.zones, call.arg.extra),
                                                  Append(call.arg.hit, TRUE))]]
    /\ pc' = "returned"
    /\ UNCHANGED <<err, files, session, runs, zip_gdf, flood_gdf, wildfire_gdf,
                   fault_gdf, dominant_flood, wildfire_max, zip_gdf_m,
                   fault_gdf_m, master_df, out_dir, out_file, wpos, risk_df,
                   call>>

Call_DominantFlood ==
    /\ pc = "call"
    /\ call.fn = "dominant_flood"
    /\ LET p == call.arg.perm
       IN  ret' = [exc |-> "none",
                   value |->
                      [original |-> DominantFloodOf(call.arg.rows, call.arg.area),
                       permuted |->
                          DominantFloodOf([k \in DOMAIN p |-> call.arg.rows[p[k]]],
                                          [k \in DOMAIN p |-> call.arg.area[p[k]]])]]
    /\ pc' = "returned"
    /\ UNCHANGED <<err, files, session, runs, zip_gdf, flood_gdf, wildfire_gdf,
                   fault_gdf, dominant_flood, wildfire_max, zip_gdf_m,
                   fault_gdf_m, master_df, out_dir, out_file, wpos, risk_df,
                   call>>

NextRel == Call_WildfireMax \/ Call_DominantFlood

SpecRel == InitRel /\ [][NextRel]_vars

----------------------------------------------------------------------------
(* The request handlers of app.py that serve boundaries and scores.        *)
(* Coordinates are in hundredths of a degree.                              *)

\* a row of the score table, as the pipeline computes its fields; the ZIP
\* is the row's key
TableRow(d, id, lvl) ==
    [Earthquake_Risk_Score |-> earthquake_risk(FloatV(d)).score,
     Earthquake_Risk_Explanation |-> earthquake_risk(FloatV(d)).explanation,
     Flood_Control_District |-> IF id = UNKNOWN THEN "UNKNOWN" ELSE DistName(id.val),
     Wildfire_Hazard_Level |-> lvl,
     Flood_Risk_Score |-> get_flood_risk_info_by_id(id).value.score,
     Flood_Risk_Explanation |-> get_flood_risk_info_by_id(id).value.explanation,
     Flood_Chatbot_Prompt |-> get_flood_risk_info_by_id(id).value.chatbot_prompt,
     Wildfire_Risk_Score |-> wildfire_risk_map_get(lvl).score,
     Wildfire_Chatbot_Prompt |-> wildfire_risk_map_get(lvl).chatbot_prompt]

TableRows ==
    {TableRow(d, id, lvl) :
        d \in DistSample, id \in {IntV(142), UNKNOWN}, lvl \in {"High", "Unknown"}}

\* zip_risk_data: the rows of the table keyed by ZIP
TableSample ==
    UNION {[S -> TableRows] : S \in SUBSET {"94501", "94601"}}

\* the properties of a feature of zipbound.geojson
PropsSample ==
    {[ZCTA5CE10 |-> z] : z \in ZipSample} \cup {[GEOID |-> z] : z \in ZipSample}

\* dict.get(key, default)
Get(d, key, default) == IF key \in DOMAIN d THEN d[key] ELSE default

\* geocode_zip: the geocoder's location, or the fixed point when it has none
geocode_zip(located) ==
    IF located THEN [lat |-> 3778, lon |-> -12222] ELSE [lat |-> 3775, lon |-> -12220]

zip_fields == <<"ZCTA5CE10", "ZIP", "ZIPCODE", "zip_code", "ZIP_CODE">>

\* load_geojson_file("zipbound.geojson"): None when the file is missing or
\* is not JSON, the features' properties otherwise
NoGeojson == [loaded |-> FALSE, features |-> <<>>]
Geojson(features) == [loaded |-> TRUE, features |-> features]

\* get_zip_boundary returning None
NoBoundary == [kind |-> "None", features |-> <<>>]

get_zip_boundary(zipbound_data, zip_code, located) ==
    IF ~zipbound_data.loaded THEN NoBoundary
    ELSE LET features == zipbound_data.features
             matches ==
                 {j \in DOMAIN features :
                     \E k \in DOMAIN zip_fields :
                        Get(features[j], zip_fields[k], Unset) = zip_code}
             c == geocode_zip(located)
         IN  IF matches # {}
             THEN [kind |-> "FeatureCollection",
                   features |->
                      <<[properties |-> features[SetMin(matches)],
                         geometry |-> [kind |-> "file", feature |-> SetMin(matches)]]>>]
             ELSE [kind |-> "FeatureCollection",
                   features |->
                      <<[properties |-> [ZIP |-> zip_code],
                         geometry |->
                            [kind |-> "Polygon",
                             coordinates |->
                                <<<<c.lon - 2, c.lat - 2>>, <<c.lon + 2, c.lat - 2>>,
                                  <<c.lon + 2, c.lat + 2>>, <<c.lon - 2, c.lat + 2>>,
                                  <<c.lon - 2, c.lat - 2>> >>]]>>]

api_zip_boundary(zipbound_data, zip_code, located) ==
    LET boundary_data == get_zip_boundary(zipbound_data, zip_code, located)
    IN  IF boundary_data # NoBoundary
        THEN [status |-> 200, body |-> boundary_data]
        ELSE [status |-> 404, body |-> NoBoundary]

\* get_risk_level: score is a float, in tenths
get_risk_level(score) ==
    IF score.val >= 70 THEN "High"
    ELSE IF score.val >= 40 THEN "Moderate"
    ELSE "Low"

\* float(x) of an integer
Float(n) == FloatV(10 * n)

unified_hazard_map(zip_risk_data, session_zip) ==
    LET zip_code == IF session_zip = Unset THEN "94601" ELSE session_zip
        data == Get(zip_risk_data, zip_code, <<>>)
        hazard(score, explanation) ==
            [score |-> Get(data, score, 0),
             explanation |-> Get(data, explanation, "No data available")]
    IN  [status |-> 200,
         body |->
            [zip_code |-> zip_code,
             risk_scores |->
                [wildfire |-> hazard("Wildfire_Risk_Score", "Wildfire_Risk_Explanation"),
                 earthquake |-> hazard("Earthquake_Risk_Score",
                                       "Earthquake_Risk_Explanation"),
                 flood |-> hazard("Flood_Risk_Score", "Flood_Risk_Explanation")]]]

api_risk_assessment(zip_risk_data, zip_code) ==
    LET data == Get(zip_risk_data, zip_code, <<>>)
        risk(score, explanation) ==
            [score |-> Float(Get(data, score, 0)),
             level |-> get_risk_level(Float(Get(data, score, 0))),
             explanation |-> Get(data, explanation, "")]
    IN  IF zip_code \notin DOMAIN zip_risk_data
        THEN [status |-> 404, body |-> [error |-> "not found"]]
        ELSE [status |-> 200,
              body |->
                 [zip_code |-> zip_code,
                  risks |->
                     [wildfire |-> risk("Wildfire_Risk_Score", "Wildfire_Risk_Explanation"),
                      earthquake |-> risk("Earthquake_Risk_Score",
                                          "Earthquake_Risk_Explanation"),
                      flood |-> risk("Flood_Risk_Score", "Flood_Risk_Explanation")],
                  overall_risk |->
                     Float(SetMax({Get(data, "Wildfire_Risk_Score", 0),
                                   Get(data, "Earthquake_Risk_Score", 0),
                                   Get(data, "Flood_Risk_Score", 0)}))]]

InitApp ==
    /\ pc = "call"
    /\ err = "none"
    /\ files = BaseFiles
    /\ session = NewSession
    /\ runs = <<>>
    /\ zip_gdf = NoFrame
    /\ flood_gdf = NoFrame
    /\ wildfire_gdf = NoFrame
    /\ fault_gdf = NoFault
    /\ dominant_flood = <<>>
    /\ wildfire_max = <<>>
    /\ zip_gdf_m = NoFrame
    /\ fault_gdf_m = NoFault
    /\ master_df = <<>>
    /\ out_dir = TRUE
    /\ out_file = [exists |-> TRUE, lines |-> OldTable]
    /\ wpos = 0
    /\ risk_df = ReadCsv(out_file)
    /\ \/ \E b \in {NoGeojson}
                    \cup {Geojson(f) : f \in SeqsUpTo(PropsSample, MaxZipFeatures)},
             z \in ZipSample, l \in BOOLEAN :
             call = [fn |-> "api_zip_boundary",
                     arg |-> [zipbound_data |-> b, zip_code |-> z, located |-> l]]
       \/ \E t \in TableSample, z \in ZipSample \cup {Unset} :
             call = [fn |-> "unified_hazard_map",
                     arg |-> [zip_risk_data |-> t, zip_code |-> z]]
       \/ \E t \in TableSample, z \in ZipSample :
             call = [fn |-> "api_risk_assessment",
                     arg |-> [zip_risk_data |-> t, zip_code |-> z]]
    /\ ret = NoRet

Call_api_zip_boundary ==
    /\ pc = "call"
    /\ call.fn = "api_zip_boundary"
    /\ ret' = [exc |-> "none",
               value |-> api_zip_boundary(call.arg.zipbound_data, call.arg.zip_code,
                                          call.arg.located)]
    /\ pc' = "returned"
    /\ UNCHANGED <<err, files, session, runs, zip_gdf, flood_gdf, wildfire_gdf,
                   fault_gdf, dominant_flood, wildfire_max, zip_gdf_m,
                   fault_gdf_m, master_df, out_dir, out_file, wpos, risk_df,
                   call>>

Call_unified_hazard_map ==
    /\ pc = "call"
    /\ call.fn = "unified_hazard_map"
    /\ ret' = [exc |-> "none",
               value |-> unified_hazard_map(call.arg.zip_risk_data, call.arg.zip_code)]
    /\ pc' = "returned"
    /\ UNCHANGED <<err, files, session, runs, zip_gdf, flood_gdf, wildfire_gdf,
                   fault_gdf, dominant_flood, wildfire_max, zip_gdf_m,
                   fault_gdf_m, master_df, out_dir, out_file, wpos, risk_df,
                   call>>

Call_api_risk_assessment ==
    /\ pc = "call"
    /\ call.fn = "api_risk_assessment"
    /\ ret' = [exc |-> "none",
               value |-> api_risk_assessment(call.arg.zip_risk_data, call.arg.zip_code)]
    /\ pc' = "returned"
    /\ UNCHANGED <<err, files, session, runs, zip_gdf, flood_gdf, wildfire_gdf,
                   fault_gdf, dominant_flood, wildfire_max, zip_gdf_m,
                   fault_gdf_m, master_df, out_dir, out_file, wpos, risk_df,
                   call>>

NextApp ==
    \/ Call_api_zip_boundary
    \/ Call_unified_hazard_map
    \/ Call_api_risk_assessment

SpecApp == InitApp /\ [][NextApp]_vars

----------------------------------------------------------------------------
(* app.py: the form handler and the hazard pages, over one browser        *)
(* session.  Requests of a session are served one after the other; the    *)
(* session variable is the cookie Flask saved at the end of the last one. *)
(* A text the chat model writes is identified by what its prompt held:    *)
(* the hazard, the ZIP, the inputs and the score.                          *)

\* zip_risk_data as loaded at start-up
ServedTables ==
    {[z \in S |-> IF z = "94501" THEN TableRow(3000, IntV(142), "High")
                               ELSE TableRow(120000, UNKNOWN, "Unknown")] :
        S \in {{"94501"}, {"94501", "94601"}}}

\* the fields of a posted form; "" is a field left empty
FormSample ==
    [zip_code : {"94501", "94601", "10001", "9450", ""},
     address : {"", "1 Main St"},
     household : {"1", "4", ""},
     special_needs : {""},
     preparedness : {"Low", ""}]

\* re.match(r'^\d{5}$', zip_code) on the ZIPs of the samples
FiveDigits(z) == z \in {"94501", "94601", "10001"}

\* geocode_address: no result or no ZIP (Unset), or the ZIP of the address
GeocodeSample == {Unset, "94601", "10001"}

Text(kind, text, zip_code, inputs, score) ==
    [kind |-> kind, text |-> text, zip_code |-> zip_code, inputs |-> inputs, score |-> score]

NoText == Text("none", "", Unset, <<>>, NaN)

\* data.get("<Hazard>_Risk_Score", "Unknown")
ScoreUnknown == [kind |-> "Unknown", val |-> 0]

ScoreKey(hazard) ==
    IF hazard = "wildfire" THEN "Wildfire_Risk_Score"
    ELSE IF hazard = "flood" THEN "Flood_Risk_Score"
    ELSE "Earthquake_Risk_Score"

\* what a handler returns: a redirect, home.html with an error, or a
\* hazard page with the values passed to its template
Response(kind, hazard, zip_code, initial_response, chat, reply, risk_score) ==
    [kind |-> kind, hazard |-> hazard, zip_code |-> zip_code,
     initial_response |-> initial_response, chat |-> chat, reply |-> reply,
     risk_score |-> risk_score]

NoResponse == Response("none", "", Unset, NoText, <<>>, NoText, NaN)

\* the store of the form's fields without the clearing of the chats
StoreForm(sess, final_zip, form) ==
    [sess EXCEPT !.zip_code = final_zip,
                 !.household = form.household,
                 !.special_needs = form.special_needs,
                 !.preparedness = form.preparedness]

\* a form handler that leaves the chats of the earlier ZIP in the session
KeepChats(sess) == sess

\* for hazard in [...]: session.pop(chat_<hazard>), session.pop(meta_<hazard>)
ClearChats(sess) ==
    [sess EXCEPT !.chat = [h \in Hazards |-> NoChat],
                 !.meta = [h \in Hazards |-> NoMeta]]

\* POST /form
process_form(zip_risk_data, sess, form, geocoded) ==
    LET error == [session |-> sess,
                  response |-> Response("error", "", Unset, NoText, <<>>, NoText, NaN)]
        final_zip == IF form.zip_code # "" THEN form.zip_code ELSE geocoded
    IN  IF form.zip_code # "" /\ ~FiveDigits(form.zip_code) THEN error
        ELSE IF form.zip_code # "" /\ form.zip_code \notin DOMAIN zip_risk_data THEN error
        ELSE IF form.zip_code = "" /\ form.address = "" THEN error
        ELSE IF form.zip_code = "" /\ geocoded = Unset THEN error
        ELSE IF form.zip_code = "" /\ geocoded \notin DOMAIN zip_risk_data THEN error
        ELSE IF form.household = "" \/ form.preparedness = "" THEN error
        ELSE [session |-> ClearChats(StoreForm(sess, final_zip, form)),
              response |-> Response("redirect", "", Unset, NoText, <<>>, NoText, NaN)]

\* hazard_page; api1 and api2 say whether the two calls of the chat model
\* return (or raise)
hazard_page(zip_risk_data, sess, hazard, method, message, api1, api2) ==
    LET zip_code == IF sess.zip_code = Unset THEN "94601" ELSE sess.zip_code
        household_size == IF sess.household = Unset THEN "Unknown" ELSE sess.household
        special_needs == IF sess.special_needs = Unset THEN "None" ELSE sess.special_needs
        preparedness_level == IF sess.preparedness = Unset THEN "Unknown" ELSE sess.preparedness
        inputs == <<household_size, special_needs, preparedness_level>>
        metadata0 == sess.meta[hazard]
        chat0 == sess.chat[hazard].msgs
        regen_needed ==
            \/ ~metadata0.present
            \/ metadata0.zip_code # zip_code
            \/ metadata0.inputs # inputs
        current_score ==
            IF zip_code \in DOMAIN zip_risk_data
            THEN IntV(zip_risk_data[zip_code][ScoreKey(hazard)])
            ELSE ScoreUnknown
        metadata ==
            IF regen_needed
            THEN [present |-> TRUE, zip_code |-> zip_code, inputs |-> inputs,
                  initial_response |-> Text(IF api1 THEN "initial" ELSE "apology",
                                            hazard, zip_code, inputs, current_score),
                  current_score |-> current_score]
            ELSE metadata0
        sess1 ==
            IF regen_needed
            THEN [sess EXCEPT !.meta[hazard] = metadata,
                              !.chat[hazard] = [present |-> TRUE, msgs |-> <<>>]]
            ELSE sess
        chat1 ==
            IF \E i \in DOMAIN chat0 : chat0[i].content = metadata.initial_response
            THEN chat0
            ELSE <<[role |-> "assistant", content |-> metadata.initial_response]>> \o chat0
        posting == method = "POST" /\ message # ""
        chat2 ==
            IF posting
            THEN Append(chat1, [role |-> "user", content |-> Text("user", message, Unset, <<>>, NaN)])
            ELSE chat1
        reply ==
            IF posting
            THEN Text(IF api2 THEN "reply" ELSE "sorry", hazard, zip_code, inputs,
                      metadata.current_score)
            ELSE NoText
        chat3 ==
            IF posting /\ api2
            THEN Append(chat2, [role |-> "assistant", content |-> reply])
            ELSE chat2
        sess2 ==
            IF posting /\ api2
            THEN [sess1 EXCEPT !.chat[hazard] = [present |-> TRUE, msgs |-> chat3]]
            ELSE sess1
    IN  [session |-> sess2,
         response |-> Response("page", hazard, zip_code, metadata.initial_response,
                               chat3, reply, metadata.current_score)]

InitSession ==
    /\ pc = "serve"
    /\ err = "none"
    /\ files = BaseFiles
    /\ session = NewSession
    /\ runs = <<>>
    /\ zip_gdf = NoFrame
    /\ flood_gdf = NoFrame
    /\ wildfire_gdf = NoFrame
    /\ fault_gdf = NoFault
    /\ dominant_flood = <<>>
    /\ wildfire_max = <<>>
    /\ zip_gdf_m = NoFrame
    /\ fault_gdf_m = NoFault
    /\ master_df = <<>>
    /\ out_dir = TRUE
    /\ out_file = [exists |-> TRUE, lines |-> OldTable]
    /\ wpos = 0
    /\ risk_df = ReadCsv(out_file)
    /\ \E t \in ServedTables : call = [fn |-> "serve", arg |-> [zip_risk_data |-> t]]
    /\ ret = NoResponse

Request_form ==
    /\ pc = "serve"
    /\ \E form \in FormSample :
       \E geocoded \in (IF form.zip_code = "" /\ form.address # ""
                        THEN GeocodeSample ELSE {Unset}) :
          LET r == process_form(call.arg.zip_risk_data, session, form, geocoded)
          IN  /\ session' = r.session
              /\ ret' = r.response
    /\ UNCHANGED <<pc, err, files, runs, zip_gdf, flood_gdf, wildfire_gdf,
                   fault_gdf, dominant_flood, wildfire_max, zip_gdf_m,
                   fault_gdf_m, master_df, out_dir, out_file, wpos, risk_df,
                   call>>

Request_hazard ==
    /\ pc = "serve"
    /\ \E hazard \in Hazards, method \in {"GET", "POST"}, api1 \in BOOLEAN :
       \E message \in (IF method = "POST" THEN {"", "q"} ELSE {""}),
          api2 \in (IF method = "POST" THEN BOOLEAN ELSE {TRUE}) :
          /\ method = "POST" => Len(session.chat[hazard].msgs) < MaxChat
          /\ LET r == hazard_page(call.arg.zip_risk_data, session, hazard, method,
                                  message, api1, api2)
             IN  /\ session' = r.session
                 /\ ret' = r.response
    /\ UNCHANGED <<pc, err, files, runs, zip_gdf, flood_gdf, wildfire_gdf,
                   fault_gdf, dominant_flood, wildfire_max, zip_gdf_m,
                   fault_gdf_m, master_df, out_dir, out_file, wpos, risk_df,
                   call>>

NextSession == Request_form \/ Request_hazard

SpecSession == InitSession /\ [][NextSession]_vars

----------------------------------------------------------------------------
(* Properties *)

AfterFlood ==
    pc \in {"wildfire", "earthquake", "merge", "flood_lookup",
            "wildfire_lookup", "to_csv", "writing", "done"}
Merged == pc \in {"flood_lookup", "wildfire_lookup", "to_csv", "writing", "done"}
Scored == pc \in {"to_csv", "writing", "done"}

\* the ZIP column of the written table
WrittenZips == [k \in 1..(Len(out_file.lines) - 1) |-> out_file.lines[k + 1].cols[1]]

\* the features of the ZIP source that carry allow-listed ZIP z
FeaturesOf(z) == {g \in DOMAIN files.zip.rows : files.zip.rows[g] = z}

\* C1: after a successful run the output table holds exactly one row for
\* every ZIP of alameda_zips and no row whose ZIP is outside alameda_zips,
\* whatever the ZIP source contains.
C1_ExactlyOneRowPerAllowListZip ==
    pc = "done" =>
        /\ \A z \in Range(alameda_zips) :
              Cardinality({k \in DOMAIN WrittenZips : WrittenZips[k] = z}) = 1
        /\ \A k \in DOMAIN WrittenZips : WrittenZips[k] \in Range(alameda_zips)

\* C2: earthquake_risk maps a distance d in metres to 10 when d < 500, 8
\* when 500 <= d < 1000, 5 when 1000 <= d < 5000, 3 when 5000 <= d < 10000
\* and 1 when d >= 10000 (d in tenths of a metre here); the score is always
\* one of 1, 3, 5, 8, 10.
C2_EarthquakeBuckets ==
    (pc = "returned" /\ call.fn = "earthquake_risk") =>
        /\ ret.value.score \in {1, 3, 5, 8, 10}
        /\ call.arg.kind = "float" =>
              LET d == call.arg.val
              IN  /\ (d < 5000) <=> (ret.value.score = 10)
                  /\ (5000 <= d /\ d < 10000) <=> (ret.value.score = 8)
                  /\ (10000 <= d /\ d < 50000) <=> (ret.value.score = 5)
                  /\ (50000 <= d /\ d < 100000) <=> (ret.value.score = 3)
                  /\ (100000 <= d) <=> (ret.value.score = 1)

\* C2's case: a centroid exactly 500 m from the fault union scored 8
C2_Witness ==
    /\ pc = "returned"
    /\ call = [fn |-> "earthquake_risk", arg |-> FloatV(5000)]
    /\ ret.value.score = 8

RECURSIVE SumAreas(_)
SumAreas(ps) ==
    IF ps = <<>> THEN 0 ELSE Head(ps).intersect_area + SumAreas(Tail(ps))

\* the area district id covers of ZIP z, summed over its pieces
TotalArea(pieces, z, id) ==
    LET mine(p) == p.ZIP = z /\ p.DISTRICT_ID = id
    IN  SumAreas(SelectSeq(pieces, mine))

\* C3: for every ZIP that intersects a flood district the resolver selects
\* the district whose total intersected area (summed over the district's
\* pieces) is largest, when no other district ties with it.
C3_LargestTotalArea ==
    AfterFlood =>
        LET pieces == Overlay(zip_gdf.rows, flood_gdf.rows, files.geo.area)
            ids(z) == {pieces[k].DISTRICT_ID :
                          k \in {k \in DOMAIN pieces : pieces[k].ZIP = z}}
        IN  \A z \in {pieces[k].ZIP : k \in DOMAIN pieces} :
               \A best \in ids(z) :
                  (\A o \in ids(z) \ {best} :
                        TotalArea(pieces, z, o) < TotalArea(pieces, z, best))
                  => \E n \in DOMAIN dominant_flood :
                        /\ dominant_flood[n].ZIP = z
                        /\ dominant_flood[n].Flood_Control_District_ID = best

\* the ordered enumeration of hazard classes: a class's rank is its
\* position, counted from 0; any other class ranks 0
HazardOrder ==
    <<"Non-Wildland/Non-Urban", "Urban Unzoned", "Low", "Moderate", "High",
      "Very High">>
RankOfClass(c) ==
    IF c \in Range(HazardOrder)
    THEN (CHOOSE k \in DOMAIN HazardOrder : HazardOrder[k] = c) - 1 ELSE 0

\* the wildfire zones of the source that intersect a feature of ZIP z
ZonesOf(z) ==
    {j \in DOMAIN files.wildfire.rows : \E g \in FeaturesOf(z) : files.geo.hit[g][j]}

\* C4: for every ZIP that intersects a wildfire zone, Wildfire_Hazard_Level
\* is the label of the largest rank among the intersecting zones; a ZIP
\* that a 'Very High' zone intersects is 'Very High' with score 10.
C4_MaxRankWins ==
    Scored =>
        \A i \in DOMAIN master_df :
            LET Z == ZonesOf(master_df[i].ZIP)
                lvl == master_df[i].Wildfire_Hazard_Level
            IN  Z # {} =>
                  /\ lvl \in Range(HazardOrder)
                  /\ \E j \in Z :
                        RankOfClass(files.wildfire.rows[j].HAZ_CLASS) = RankOfClass(lvl)
                  /\ \A j \in Z :
                        RankOfClass(files.wildfire.rows[j].HAZ_CLASS) <= RankOfClass(lvl)
                  /\ (\E j \in Z : files.wildfire.rows[j].HAZ_CLASS = "Very High")
                        => /\ lvl = "Very High"
                           /\ master_df[i].Wildfire_Risk_Score = 10

\* C4's case: a ZIP that a 'High' and a 'Very High' zone intersect is
\* written as 'Very High' with score 10
C4_Witness ==
    /\ pc = "done"
    /\ \E i \in DOMAIN master_df :
          /\ \E j, k \in ZonesOf(master_df[i].ZIP) :
                /\ files.wildfire.rows[j].HAZ_CLASS = "High"
                /\ files.wildfire.rows[k].HAZ_CLASS = "Very High"
          /\ master_df[i].Wildfire_Hazard_Level = "Very High"
          /\ master_df[i].Wildfire_Risk_Score = 10

\* C5: a filtered ZIP that no flood district intersects gets the district
\* name and ID 'UNKNOWN' and Flood_Risk_Score 0; one that no wildfire zone
\* intersects gets Wildfire_Hazard_Level 'Unknown' and Wildfire_Risk_Score 0;
\* its earthquake score still follows its fault distance (12,000 m -> 1).
C5_DefaultsForMissingHazards ==
    Scored =>
        \A i \in DOMAIN master_df :
            LET r == master_df[i]
                g == zip_gdf.rows[i].geometry
            IN  /\ (\A f \in FeaturesOf(r.ZIP) :
                        \A j \in DOMAIN files.flood.rows : files.geo.area[f][j] = 0)
                      => /\ r.Flood_Control_District = "UNKNOWN"
                         /\ r.Flood_Control_District_ID = UNKNOWN
                         /\ r.Flood_Risk_Score = 0
                /\ ZonesOf(r.ZIP) = {}
                      => /\ r.Wildfire_Hazard_Level = "Unknown"
                         /\ r.Wildfire_Risk_Score = 0
                /\ (files.fault.n > 0 /\ files.geo.dist[g] = 120000)
                      => r.Earthquake_Risk_Score = 1
                /\ (files.fault.n > 0 /\ files.geo.dist[g] = 3000)
                      => r.Earthquake_Risk_Score = 10

\* C5's case: a written row of a ZIP 12,000 m from the faults that neither
\* a flood district nor a wildfire zone intersects
C5_Witness ==
    /\ pc = "done"
    /\ files.flood.rows # <<>>
    /\ files.wildfire.rows # <<>>
    /\ \E i \in DOMAIN master_df :
          /\ \A f \in FeaturesOf(master_df[i].ZIP) :
                \A j \in DOMAIN files.flood.rows : files.geo.area[f][j] = 0
          /\ ZonesOf(master_df[i].ZIP) = {}
          /\ files.fault.n > 0
          /\ files.geo.dist[zip_gdf.rows[i].geometry] = 120000
          /\ master_df[i].Flood_Control_District = "UNKNOWN"
          /\ master_df[i].Flood_Risk_Score = 0
          /\ master_df[i].Wildfire_Hazard_Level = "Unknown"
          /\ master_df[i].Wildfire_Risk_Score = 0
          /\ master_df[i].Earthquake_Risk_Score = 1

\* C6: the merged table holds the ZIP values of the filtered ZIP set, the
\* same rows in the same order: the merge drops and duplicates no ZIP.
C6_MergeKeepsZips ==
    Merged =>
        [i \in DOMAIN master_df |-> master_df[i].ZIP]
            = [i \in DOMAIN zip_gdf.rows |-> zip_gdf.rows[i].ZIP]

\* C6's case: two filtered ZIPs merged, one with a dominant district and a
\* wildfire level, the other with neither
C6_Witness ==
    /\ pc = "flood_lookup"
    /\ Len(zip_gdf.rows) = 2
    /\ zip_gdf.rows[1].ZIP # zip_gdf.rows[2].ZIP
    /\ Len(dominant_flood) = 1
    /\ \E i \in DOMAIN master_df : master_df[i].Flood_Control_District = "UNKNOWN"
    /\ \E i \in DOMAIN master_df : master_df[i].Flood_Control_District = "Zone 2"

\* C7: get_flood_risk_info_by_id returns the table entry of int(district_id)
\* when int() succeeds and its value is a key of the table, and the
\* 'UNKNOWN' entry (score 0) otherwise; no exception leaves it.
C7_LookupFallsBack ==
    (pc = "returned" /\ call.fn = "get_flood_risk_info_by_id") =>
        LET k == PyInt(call.arg)
        IN  /\ ret.exc = "none"
            /\ IF k.exc = "none" /\ k.val \in FloodIds
               THEN ret.value = FloodEntry(k.val)
               ELSE ret.value = FloodUnknownEntry /\ ret.value.score = 0

\* C7's case: None cannot be coerced; the call returned the UNKNOWN entry
C7_Witness ==
    /\ pc = "returned"
    /\ call = [fn |-> "get_flood_risk_info_by_id", arg |-> None]
    /\ ret = [exc |-> "none", value |-> FloodUnknownEntry]

\* C8: at every point of every run the output file is absent or a complete
\* table (the prior one or the run's own), never a partial one, and a run
\* that aborted left it as it was.
C8_NoPartialArtifact ==
    /\ out_file.exists =>
          \/ out_file.lines = OldTable
          \/ pc \in {"writing", "done"} /\ out_file.lines = Render(master_df)
    /\ pc = "aborted" => (out_file.exists => out_file.lines = OldTable)

\* C9: a consumer that reads the output file while the pipeline runs gets
\* the complete old table or the complete new table, never an empty or
\* partially written file.
C9_ConsumerReadsCompleteTable ==
    \/ risk_df.state \in {"unloaded", "FileNotFoundError"}
    \/ /\ risk_df.state = "loaded"
       /\ \/ risk_df.lines = OldTable
          \/ pc \in {"writing", "done"} /\ risk_df.lines = Render(master_df)

\* C10: when one of the four geometry sources is unreadable or holds zero
\* features the loader fails and the run aborts: nothing runs past the load.
C10_EmptySourceAborts ==
    (\/ ~files.zip.readable \/ ~files.flood.readable
     \/ ~files.wildfire.readable \/ ~files.fault.readable
     \/ files.zip.rows = <<>> \/ files.flood.rows = <<>>
     \/ files.wildfire.rows = <<>> \/ files.fault.n = 0)
        => pc \in {"start", "load", "aborted"}

AfterWildfire ==
    pc \in {"earthquake", "merge", "flood_lookup", "wildfire_lookup", "to_csv",
            "writing", "done"}

\* C11: every wildfire zone gets an integer hazard rank in 0..5 by the fixed
\* enumeration; a zone whose class is unrecognized or absent gets rank 0,
\* never a missing value, so a ZIP that only such zones intersect resolves
\* to rank 0 and the rank-0 label.
C11_RanksInEnumeration ==
    AfterWildfire =>
        /\ \A j \in DOMAIN wildfire_gdf.rows :
              /\ wildfire_gdf.rows[j].hazard_rank
                    = <<RankOfClass(files.wildfire.rows[j].HAZ_CLASS)>>
              /\ wildfire_gdf.rows[j].hazard_rank[1] \in 0..5
        /\ \A n \in DOMAIN wildfire_max :
              LET Z == ZonesOf(wildfire_max[n].ZIP)
              IN  (/\ Z # {}
                   /\ \A j \in Z :
                         files.wildfire.rows[j].HAZ_CLASS \notin Range(HazardOrder))
                  => /\ wildfire_max[n].hazard_rank = IntV(0)
                     /\ wildfire_max[n].Wildfire_Hazard_Level = HazardOrder[1]

\* C11's case: a ZIP that a zone of class 'Other' and a zone without a
\* class intersect, and no other zone, written with the rank-0 label
C11_Witness ==
    /\ pc = "done"
    /\ \E i \in DOMAIN master_df :
          LET Z == ZonesOf(master_df[i].ZIP)
          IN  /\ {files.wildfire.rows[j].HAZ_CLASS : j \in Z} = {"Other", NA}
              /\ master_df[i].Wildfire_Hazard_Level = "Non-Wildland/Non-Urban"
              /\ master_df[i].Wildfire_Risk_Score = 1

\* a resolved rank as a number: no rank at all is below rank 0
RankValue(r) == IF r = NaN THEN -1 ELSE r.val

\* C12: the wildfire rank is monotonic in the zone set: adding one more
\* zone that intersects the ZIP never lowers the resolved rank, and when
\* the added zone's rank exceeds the current maximum the resolved level
\* becomes the level of the added zone.
C12_RankMonotonic ==
    (pc = "returned" /\ call.fn = "wildfire_max") =>
        LET before == ret.value.before[1]
            after == ret.value.after[1]
            added == RankOfClass(call.arg.extra.HAZ_CLASS)
        IN  /\ RankValue(before.hazard_rank) <= RankValue(after.hazard_rank)
            /\ added > RankValue(before.hazard_rank)
                  => /\ after.hazard_rank = IntV(added)
                     /\ after.Wildfire_Hazard_Level = HazardOrder[added + 1]
            /\ added <= RankValue(before.hazard_rank)
                  => after.Wildfire_Hazard_Level = before.Wildfire_Hazard_Level

\* C12's case: a ZIP that a 'Very High' zone intersects stays 'Very High'
\* when a 'Moderate' zone is added
C12_Witness ==
    /\ pc = "returned"
    /\ call.fn = "wildfire_max"
    /\ call.arg.extra.HAZ_CLASS = "Moderate"
    /\ \E j \in DOMAIN call.arg.zones :
          call.arg.zones[j].HAZ_CLASS = "Very High" /\ call.arg.hit[j]
    /\ ret.value.before[1].Wildfire_Hazard_Level = "Very High"
    /\ ret.value.after[1].Wildfire_Hazard_Level = "Very High"

\* the positions of the features that hold the largest intersection area
Largest(rows, area) ==
    {j \in DOMAIN rows : area[j] > 0 /\ \A k \in DOMAIN rows : area[k] <= area[j]}

C14_RerunWritesSameTable ==
    (pc = "done" /\ runs # <<>>) => out_file.lines = runs[Len(runs)]

\* C14's case: a second run completed over a table of two ZIP rows
C14_Witness ==
    /\ pc = "done"
    /\ Len(runs) = 1
    /\ Len(out_file.lines) = 3
    /\ out_file.lines[2].cols[1] # out_file.lines[3].cols[1]

\* the columns of the table, in the order the table is specified to have
TenColumns ==
    <<"ZIP", "Earthquake_Risk_Score", "Earthquake_Risk_Explanation",
      "Flood_Control_District", "Wildfire_Hazard_Level", "Flood_Risk_Score",
      "Flood_Risk_Explanation", "Flood_Chatbot_Prompt", "Wildfire_Risk_Score",
      "Wildfire_Chatbot_Prompt">>

ScoreColumns == {"Earthquake_Risk_Score", "Flood_Risk_Score", "Wildfire_Risk_Score"}

\* C15: the written table has exactly the ten columns ZIP,
\* Earthquake_Risk_Score, Earthquake_Risk_Explanation,
\* Flood_Control_District, Wildfire_Hazard_Level, Flood_Risk_Score,
\* Flood_Risk_Explanation, Flood_Chatbot_Prompt, Wildfire_Risk_Score,
\* Wildfire_Chatbot_Prompt in that order, and every row holds a defined
\* value in each: a score in 0..10, or a text that is not the missing value.
C15_TenColumnsNoMissing ==
    pc = "done" =>
        /\ Len(out_file.lines) = Len(master_df) + 1
        /\ out_file.lines[1] = [kind |-> "header", cols |-> TenColumns]
        /\ \A i \in DOMAIN master_df :
              LET line == out_file.lines[i + 1]
              IN  /\ line.kind = "row"
                  /\ DOMAIN line.cols = 1..10
                  /\ \A j \in 1..10 :
                        /\ line.cols[j] = master_df[i][TenColumns[j]]
                        /\ IF TenColumns[j] \in ScoreColumns
                           THEN line.cols[j] \in 0..10
                           ELSE line.cols[j] \in STRING /\ line.cols[j] # NA

\* C15's case: a written row of a ZIP whose dominant district has no name
\* in the source and whose only wildfire zone has no class
C15_Witness ==
    /\ pc = "done"
    /\ files.flood.rows # <<>> /\ files.flood.rows[1].DIST_NAME = NA
    /\ files.wildfire.rows # <<>> /\ files.wildfire.rows[1].HAZ_CLASS = NA
    /\ \E k \in 2..Len(out_file.lines) :
          /\ out_file.lines[k].cols[4] = "UNKNOWN"
          /\ out_file.lines[k].cols[6] > 0
          /\ out_file.lines[k].cols[5] = "Non-Wildland/Non-Urban"

\* does the boundary file hold a feature of ZIP z
HasFeature(zipbound_data, z) ==
    /\ zipbound_data.loaded
    /\ \E j \in DOMAIN zipbound_data.features :
          \E f \in DOMAIN zipbound_data.features[j] :
             f \in Range(zip_fields) /\ zipbound_data.features[j][f] = z

RiskLevels == {"Low", "Moderate", "High"}

\* C16: the serving layer never invents fallback geometry or scores: for a
\* ZIP without a feature in the boundary file no handler returns a
\* boundary, for a ZIP without a row in the score table no handler returns
\* a score, and a score of 0 is presented as no data, never as a risk level.
C16_NoInventedData ==
    pc = "returned" =>
        /\ (/\ call.fn = "api_zip_boundary"
            /\ ~HasFeature(call.arg.zipbound_data, call.arg.zip_code))
              => ret.value.status = 404
        /\ (/\ call.fn = "unified_hazard_map"
            /\ ret.value.body.zip_code \notin DOMAIN call.arg.zip_risk_data)
              => ret.value.status = 404
        /\ (/\ call.fn = "api_risk_assessment"
            /\ call.arg.zip_code \notin DOMAIN call.arg.zip_risk_data)
              => ret.value.status = 404
        /\ (call.fn = "api_risk_assessment" /\ ret.value.status = 200)
              => \A h \in {"wildfire", "earthquake", "flood"} :
                    ret.value.body.risks[h].score = Float(0)
                       => ret.value.body.risks[h].level \notin RiskLevels

\* C17: each resolver only reads the shared inputs and writes its own
\* intermediate table: a step of the flood, wildfire or earthquake
\* resolver leaves the ZIP frame and the three loaded hazard datasets as
\* they were.
C17_ResolversOnlyReadInputs ==
    [][(pc \in {"flood", "wildfire", "earthquake"})
          => (/\ zip_gdf' = zip_gdf
              /\ flood_gdf' = flood_gdf
              /\ wildfire_gdf' = wildfire_gdf
              /\ fault_gdf' = fault_gdf)]_vars

\* the earthquake fields of a ZIP feature, from the ZIP and fault sources
QuakeFieldsOf(g) ==
    earthquake_risk(IF files.fault.n = 0 THEN NaN ELSE FloatV(files.geo.dist[g]))

\* the wildfire level of a ZIP, from the ZIP and wildfire sources
WildfireLevelOf(z) ==
    IF ZonesOf(z) = {} THEN "Unknown"
    ELSE HazardOrder[SetMax({RankOfClass(files.wildfire.rows[j].HAZ_CLASS) :
                                j \in ZonesOf(z)}) + 1]

\* the dominant districts, from the ZIP and flood sources
DominantOfSources ==
    DominantFlood(Overlay(FilterZips(ZipFrame(files.zip).rows),
                          FloodFrame(files.flood).rows, files.geo.area))

\* the flood fields of a ZIP, given the dominant districts df
FloodFieldsOf(df, z) ==
    LET mine == {n \in DOMAIN df : df[n].ZIP = z}
        name == IF mine = {} THEN NA ELSE df[SetMin(mine)].Flood_Control_District
        id == IF mine = {} THEN NaN ELSE df[SetMin(mine)].Flood_Control_District_ID
    IN  [district |-> IF name = NA THEN "UNKNOWN" ELSE name,
         info |-> get_flood_risk_info_by_id(IF id = NaN THEN UNKNOWN ELSE id).value]

\* C18: hazard categories do not interfere: the earthquake fields of every
\* output row are determined by the ZIP and fault sources alone, its
\* wildfire fields by the ZIP and wildfire sources alone, its flood fields
\* by the ZIP and flood sources alone, so changing one hazard's dataset
\* changes no field of another hazard; every filtered ZIP has its row,
\* whichever hazards it lacks.
C18_HazardsDoNotInterfere ==
    Scored =>
        /\ Len(master_df) = Len(zip_gdf.rows)
        /\ LET df == DominantOfSources
           IN  \A i \in DOMAIN master_df :
              LET r == master_df[i]
                  q == QuakeFieldsOf(zip_gdf.rows[i].geometry)
                  w == WildfireLevelOf(r.ZIP)
                  f == FloodFieldsOf(df, r.ZIP)
              IN  /\ r.ZIP = zip_gdf.rows[i].ZIP
                  /\ r.Earthquake_Risk_Score = q.score
                  /\ r.Earthquake_Risk_Explanation = q.explanation
                  /\ r.Wildfire_Hazard_Level = w
                  /\ r.Wildfire_Risk_Score = wildfire_risk_map(w).score
                  /\ r.Wildfire_Chatbot_Prompt = wildfire_risk_map(w).chatbot_prompt
                  /\ r.Flood_Control_District = f.district
                  /\ r.Flood_Risk_Score = f.info.score
                  /\ r.Flood_Risk_Explanation = f.info.explanation
                  /\ r.Flood_Chatbot_Prompt = f.info.chatbot_prompt

\* C18's case: a written row of a ZIP without any flood district, with its
\* 'High' wildfire level and the earthquake score of 300 m
C18_Witness ==
    /\ pc = "done"
    /\ \E i \in DOMAIN master_df :
          /\ master_df[i].Flood_Control_District = "UNKNOWN"
          /\ master_df[i].Flood_Risk_Score = 0
          /\ master_df[i].Wildfire_Hazard_Level = "High"
          /\ master_df[i].Wildfire_Risk_Score = 8
          /\ master_df[i].Earthquake_Risk_Score = 10

AfterEarthquake ==
    pc \in {"merge", "flood_lookup", "wildfire_lookup", "to_csv", "writing", "done"}

\* C19: every distance or area computation is made on operands that are in
\* one CRS: the flood overlay and its areas on a ZIP frame and a flood
\* frame of the same CRS, the wildfire join on a ZIP frame and a wildfire
\* frame of the same CRS, the fault distance on ZIP centroids and faults
\* both in the metric projection EPSG:3310.
C19_OperandsShareCrs ==
    /\ AfterFlood => zip_gdf.crs = flood_gdf.crs
    /\ AfterWildfire => zip_gdf.crs = wildfire_gdf.crs
    /\ AfterEarthquake =>
          /\ zip_gdf_m.crs = "EPSG:3310"
          /\ fault_gdf_m.crs = "EPSG:3310"

\* C20: the merger is a fan-in barrier: whenever the merge is about to
\* start or has started, the flood, the wildfire and the earthquake
\* resolver have each completed and left their result; a run in which a
\* resolver failed has merged nothing and written nothing.
C20_MergeAfterAllResolvers ==
    /\ AfterEarthquake =>
          /\ dominant_flood =
                DominantFlood(Overlay(zip_gdf.rows, flood_gdf.rows, files.geo.area))
          /\ "hazard_rank" \in wildfire_gdf.cols
          /\ wildfire_max = WildfireMax(zip_gdf.rows, wildfire_gdf.rows, files.geo.hit)
          /\ Len(zip_gdf_m.rows) = Len(zip_gdf.rows)
          /\ \A i \in DOMAIN zip_gdf.rows :
                zip_gdf.rows[i].quake = <<QuakeFieldsOf(zip_gdf.rows[i].geometry)>>
    /\ pc = "aborted" =>
          /\ master_df = <<>>
          /\ wpos = 0
          /\ out_file.exists => out_file.lines = OldTable

\* C20's case: the flood resolver completed, the wildfire resolver failed
\* on a dataset without HAZ_CLASS, and the run ended with no merged table
C20_Witness ==
    /\ pc = "aborted"
    /\ err = "ValueError"
    /\ ~files.wildfire.haz
    /\ dominant_flood # <<>>
    /\ wildfire_max = <<>>
    /\ master_df = <<>>

\* C21: in every output row the flood label and the flood score agree on
\* whether data is missing: Flood_Risk_Score is 0 exactly when
\* Flood_Control_District is 'UNKNOWN', and only such a row carries the
\* explanation of the 'UNKNOWN' entry.
C21_FloodLabelAndScoreAgree ==
    Scored =>
        \A i \in DOMAIN master_df :
            LET r == master_df[i]
            IN  /\ (r.Flood_Risk_Score = 0) <=> (r.Flood_Control_District = "UNKNOWN")
                /\ (r.Flood_Risk_Explanation = FloodUnknownEntry.explanation)
                      <=> (r.Flood_Control_District = "UNKNOWN")

\* C22: every column the serving layer reads from a row of the score
\* table is a column of the table it loaded, so no field is always served
\* from its hard-coded default.
C22_ConsumerColumnsAreWritten ==
    risk_df.state = "loaded" =>
        LET d == ToDict(risk_df.lines)
        IN  d.exc = "none" =>
               \A z \in DOMAIN d.value : ConsumerColumns \subseteq DOMAIN d.value[z]

\* the ZIP and the inputs hazard_page reads from a session
CurrentZip == IF session.zip_code = Unset THEN "94601" ELSE session.zip_code
CurrentInputs ==
    <<IF session.household = Unset THEN "Unknown" ELSE session.household,
      IF session.special_needs = Unset THEN "None" ELSE session.special_needs,
      IF session.preparedness = Unset THEN "Unknown" ELSE session.preparedness>>
CurrentScore(hazard) ==
    LET t == call.arg.zip_risk_data
    IN  IF CurrentZip \in DOMAIN t THEN IntV(t[CurrentZip][ScoreKey(hazard)]) ELSE ScoreUnknown
ForCurrent(text, hazard) ==
    /\ text.text = hazard
    /\ text.zip_code = CurrentZip
    /\ text.inputs = CurrentInputs
    /\ text.score = CurrentScore(hazard)
AssistantTexts(chat) == {chat[i].content : i \in {k \in DOMAIN chat : chat[k].role = "assistant"}}

\* C23: in one session, whatever forms and hazard-page requests came
\* before, the initial response, the risk score and every assistant message
\* of the chat a hazard page renders were generated for the session's
\* current ZIP and inputs; the response to an accepted form leaves no chat
\* and no metadata of any hazard; a stored chat that is not empty has
\* metadata for the current ZIP and inputs.
C23_ChatCacheCoherent ==
    pc = "serve" =>
        /\ ret.kind = "page" =>
              /\ ForCurrent(ret.initial_response, ret.hazard)
              /\ ret.risk_score = CurrentScore(ret.hazard)
              /\ ret.zip_code = CurrentZip
              /\ \A t \in AssistantTexts(ret.chat) : ForCurrent(t, ret.hazard)
              /\ ret.reply # NoText => ForCurrent(ret.reply, ret.hazard)
        /\ ret.kind = "redirect" =>
              \A h \in Hazards : ~session.chat[h].present /\ ~session.meta[h].present
        /\ \A h \in Hazards :
              session.chat[h].msgs # <<>> =>
                  /\ session.meta[h].present
                  /\ session.meta[h].zip_code = CurrentZip
                  /\ session.meta[h].inputs = CurrentInputs
                  /\ \A t \in AssistantTexts(session.chat[h].msgs) : ForCurrent(t, h)

\* a page of a hazard rendered for a ZIP, in a session whose chat of
\* another hazard was stored after a form changed the ZIP: the session has
\* seen two accepted forms and chats in between
C23_Witness ==
    /\ pc = "serve"
    /\ ret.kind = "page"
    /\ ret.hazard = "flood"
    /\ ret.zip_code = "94601"
    /\ Len(ret.chat) = 3
    /\ session.household = "4"
    /\ session.chat["wildfire"].msgs # <<>>

=============================================================================
